---------------------------- MODULE Spec2Model ----------------------------
(***************************************************************************)
(* A model of the stateful parts of sark:                                  *)
(*   - sark/qt.py        MenuManager (add_menu, remove_menu, clear)        *)
(*   - sark/code/line.py Line, Comments and the lines() generator          *)
(* The host application (IDA and its Qt menu bar) is the environment: its  *)
(* menu bar, its item layout and the answers of its API are state or       *)
(* inputs of the model.                                                    *)
(***************************************************************************)
EXTENDS Integers, Sequences, FiniteSets, TLC

(***************************************************************************)
(* Bounds of the model.                                                    *)
(***************************************************************************)
\* how many distinct menu names the callers use
MaxNames == 3
\* how many QMenu objects the host creates for the manager
MaxMenus == 4
\* the host's database spans the addresses 0 .. MaxEA - 1
MaxEA == 4
\* the longest comment text a caller writes, in characters
MaxText == 2
\* the most lines of extra comment the host holds at one address
MaxExtraLines == 2

\* Python's None
None == "None"

VARIABLES
    menuBar,     \* the QMenu objects in the host's QMenuBar (self._menu)
    _menus,      \* MenuManager._menus: name -> QMenu
    serial,      \* number of QMenu objects the host has created for the manager
    menuRaised,  \* the exception the last MenuManager call raised, or None
    menuCall,    \* the last MenuManager call: [op, name]
    preBar,      \* menuBar when the last call was made
    preMenus,    \* _menus when the last call was made
    removedTwice,\* QMenus whose action was passed to removeAction while not in the bar
    heads,       \* the host's item layout: the addresses at which an item starts
    line,        \* the Line object the last Line(...) call returned, or NoLine
    lineRaised,  \* the exception the last Line / Comments call raised, or None
    lineCall,    \* the last Line / Comments call, with the host's answers to it
    hostCalls,   \* the calls that call issued to the host, in order
    gen,         \* the generator lines(start, end, reverse) returned
    yielded      \* the Line objects that generator has yielded so far

menuVars == <<menuBar, _menus, serial, menuRaised, menuCall, preBar, preMenus,
              removedTwice>>
lineVars == <<line, lineRaised, lineCall, hostCalls>>
linesVars == <<gen, yielded>>
vars == <<menuVars, heads, lineVars, linesVars>>

(***************************************************************************)
(* sark/qt.py: MenuManager                                                 *)
(***************************************************************************)
AllNames == <<"MyMenu", "File", "Tools", "Extra", "Spare">>
Names == {AllNames[i] : i \in 1..MaxNames}

\* A QMenu object: its title, who created it, and which creation it was.
HostMenu(title) == [title |-> title, creator |-> "host", serial |-> 0]
ManagerMenu(title, k) == [title |-> title, creator |-> "manager", serial |-> k]

\* The menus of the bar that this manager created.
OwnMenus(bar) == {m \in bar : m.creator = "manager"}

\* QMenuBar.addMenu(name): a new QMenu, appended to the bar.
addMenu(bar, name, k) == bar \cup {ManagerMenu(name, k)}

\* QWidget.removeAction(menu.menuAction()): no effect when it is not there.
removeAction(bar, menu) == bar \ {menu}

\* dict with one more key
DictSet(d, k, v) == [x \in (DOMAIN d) \cup {k} |-> IF x = k THEN v ELSE d[x]]

Values(d) == {d[x] : x \in DOMAIN d}

EmptyDict == [x \in {} |-> None]

\* MenuManager.__init__: the menu bar holds the host's own menus, whose
\* names may be names the caller will use too.
MenuManagerInit ==
    /\ \E hostNames \in SUBSET Names : menuBar = {HostMenu(n) : n \in hostNames}
    /\ _menus = EmptyDict
    /\ serial = 0
    /\ menuRaised = None
    /\ menuCall = [op |-> "__init__", name |-> None]
    /\ preBar = {}
    /\ preMenus = EmptyDict
    /\ removedTwice = {}

\* The bookkeeping of a call: what was called, and on which state.
Called(op, name) ==
    /\ UNCHANGED <<heads, lineVars, linesVars>>
    /\ menuCall' = [op |-> op, name |-> name]
    /\ preBar' = menuBar
    /\ preMenus' = _menus

\* add_menu without its membership check
add_menu_unchecked(name) ==
    /\ Called("add_menu", name)
    /\ serial < MaxMenus
    /\ menuBar' = addMenu(menuBar, name, serial + 1)
    /\ _menus' = DictSet(_menus, name, ManagerMenu(name, serial + 1))
    /\ serial' = serial + 1
    /\ menuRaised' = None
    /\ UNCHANGED removedTwice

add_menu(name) ==
    /\ Called("add_menu", name)
    /\ \/ /\ name \in DOMAIN _menus
          /\ menuRaised' = "MenuAlreadyExists"
          /\ UNCHANGED <<menuBar, _menus, serial, removedTwice>>
       \/ /\ name \notin DOMAIN _menus
          /\ serial < MaxMenus
          /\ menuBar' = addMenu(menuBar, name, serial + 1)
          /\ _menus' = DictSet(_menus, name, ManagerMenu(name, serial + 1))
          /\ serial' = serial + 1
          /\ menuRaised' = None
          /\ UNCHANGED removedTwice

remove_menu(name) ==
    /\ Called("remove_menu", name)
    /\ \/ /\ name \notin DOMAIN _menus
          /\ menuRaised' = "MenuNotFound"
          /\ UNCHANGED <<menuBar, _menus, serial, removedTwice>>
       \/ /\ name \in DOMAIN _menus
          /\ menuBar' = removeAction(menuBar, _menus[name])
          /\ removedTwice' = removedTwice \cup ({_menus[name]} \ menuBar)
          /\ menuRaised' = None
          /\ UNCHANGED <<_menus, serial>>

\* clear that removes from the bar every menu titled like one of its own
clear_by_title ==
    /\ Called("clear", None)
    /\ menuBar' = {m \in menuBar : m.title \notin DOMAIN _menus}
    /\ removedTwice' = removedTwice \cup (Values(_menus) \ menuBar)
    /\ menuRaised' = None
    /\ UNCHANGED <<_menus, serial>>

clear ==
    /\ Called("clear", None)
    /\ menuBar' = menuBar \ Values(_menus)
    /\ removedTwice' = removedTwice \cup (Values(_menus) \ menuBar)
    /\ menuRaised' = None
    /\ UNCHANGED <<_menus, serial>>

MenuNext ==
    \/ \E name \in Names : add_menu(name)
    \/ \E name \in Names : remove_menu(name)
    \/ clear

(***************************************************************************)
(* The host's disassembly database, as sark/code/line.py uses it.          *)
(***************************************************************************)
Addr == 0..(MaxEA - 1)

\* idaapi.BADADDR, the host's answer for "no such address": an address above
\* every database (0xFFFFFFFF in a 32-bit host; the largest integer the model
\* checker has stands for it, nothing in the code computes with it).
BADADDR == 2147483647

\* The layouts of a database whose items tile it: an item starts at 0 and
\* every item has at least one byte.
Layouts == {H \in SUBSET Addr : 0 \in H}

SetMax(S) == CHOOSE x \in S : \A y \in S : y <= x
SetMin(S) == CHOOSE x \in S : \A y \in S : x <= y

\* idaapi.get_item_head(ea): the start of the item that holds ea; ea itself
\* when no item holds it.
get_item_head(ea) ==
    IF ea \in Addr THEN SetMax({h \in heads : h <= ea}) ELSE ea

\* idaapi.get_item_end(ea): the first address after the item that holds ea.
get_item_end(ea) == SetMin({h \in heads : h > ea} \cup {MaxEA})

\* idaapi.get_item_size(ea), for an address of the database
get_item_size(ea) == get_item_end(ea) - ea

(***************************************************************************)
(* Python values that are an address, None or the UseCurrentAddress filler *)
(***************************************************************************)
Ea(v) == [kind |-> "int", val |-> v]
NoneV == [kind |-> "None"]
UseCurrentAddress == [kind |-> "UseCurrentAddress"]

NoLine == [kind |-> "NoLine"]

\* the names callers look up; the host knows only some of them
LineNames == {"start", "loop"}

(***************************************************************************)
(* sark/code/line.py: Comments                                             *)
(***************************************************************************)
\* Comments.__init__(ea)
Comments(ea) == [_ea |-> ea]

\* the characters of a comment text
Chars == {"a", "\n"}

Texts == UNION {[1..n -> Chars] : n \in 0..MaxText}

\* str.splitlines(): the lines of a text, without their line ends; a line
\* end at the very end of the text starts no further line.
RECURSIVE SplitFrom(_, _, _, _)
SplitFrom(text, i, cur, out) ==
    IF i > Len(text) THEN (IF cur = <<>> THEN out ELSE Append(out, cur))
    ELSE IF text[i] = "\n" THEN SplitFrom(text, i + 1, <<>>, Append(out, cur))
    ELSE SplitFrom(text, i + 1, Append(cur, text[i]), out)

splitlines(text) == SplitFrom(text, 1, <<>>, <<>>)

\* Comments.regular / Comments.repeat, read: one call at self._ea
GetCalls(fn, c) == <<[fn |-> fn, ea |-> c._ea]>>

\* Comments.regular / Comments.repeat, written: one call at self._ea
SetCalls(fn, c, comment) == <<[fn |-> fn, ea |-> c._ea, arg |-> comment]>>

\* Comments.anterior / Comments.posterior, read: the host's n lines are
\* fetched by index until the host answers None.
ExtraGetCalls(fn, c, n) ==
    [i \in 1..(n + 1) |-> [fn |-> fn, ea |-> c._ea, index |-> i - 1]]

\* Comments.anterior / Comments.posterior, written: every line of the text
\* is stored by index, and the line after the last index is deleted.
ExtraSetCalls(fn, delFn, c, comment) ==
    LET ls == splitlines(comment)
        index == IF Len(ls) = 0 THEN 0 ELSE Len(ls) - 1
    IN  [i \in 1..Len(ls) |-> [fn |-> fn, ea |-> c._ea, index |-> i - 1, arg |-> ls[i]]]
        \o <<[fn |-> delFn, ea |-> c._ea, index |-> index + 1]>>

(***************************************************************************)
(* sark/code/line.py: Line                                                 *)
(***************************************************************************)
\* Line.__init__ that takes ea = None for the current screen address
LineInit_NoneIsCurrent(ea, name, hereEA, locEA) ==
    IF name /= None /\ ea \notin {UseCurrentAddress, NoneV}
    THEN [raised |-> "ValueError", line |-> NoLine]
    ELSE IF name /= None
    THEN [raised |-> None,
          line |-> [_ea |-> get_item_head(locEA), _comments |-> Comments(locEA)]]
    ELSE IF ea \in {UseCurrentAddress, NoneV}
    THEN [raised |-> None,
          line |-> [_ea |-> get_item_head(hereEA), _comments |-> Comments(hereEA)]]
    ELSE [raised |-> None,
          line |-> [_ea |-> get_item_head(ea.val), _comments |-> Comments(ea.val)]]

\* Line.__init__(ea, name). hereEA is the host's idc.here(), locEA its
\* idc.LocByName(name). The result: the exception raised, or the object.
LineInit(ea, name, hereEA, locEA) ==
    IF name /= None /\ ea /= UseCurrentAddress
    THEN [raised |-> "ValueError", line |-> NoLine]
    ELSE IF name /= None
    THEN [raised |-> None,
          line |-> [_ea |-> get_item_head(locEA), _comments |-> Comments(locEA)]]
    ELSE IF ea = UseCurrentAddress
    THEN [raised |-> None,
          line |-> [_ea |-> get_item_head(hereEA), _comments |-> Comments(hereEA)]]
    ELSE IF ea = NoneV
    THEN [raised |-> "ValueError", line |-> NoLine]
    ELSE [raised |-> None,
          line |-> [_ea |-> get_item_head(ea.val), _comments |-> Comments(ea.val)]]

\* Line.endEA
endEA(l) == l._ea + get_item_size(l._ea)

LineIdle ==
    /\ line = NoLine
    /\ lineRaised = None
    /\ lineCall = [op |-> "none"]
    /\ hostCalls = <<>>

LineModuleInit ==
    /\ heads \in Layouts
    /\ LineIdle

\* line = Line(ea, name)
NewLine(ea, name) ==
    \E hereEA \in Addr, locEA \in Addr \cup {BADADDR} :
        LET r == LineInit(ea, name, hereEA, locEA)
        IN  /\ line' = r.line
            /\ lineRaised' = r.raised
            /\ lineCall' = [op |-> "Line", ea |-> ea, name |-> name,
                            here |-> hereEA, loc |-> locEA]
            /\ hostCalls' = <<>>
            /\ UNCHANGED <<heads, menuVars, linesVars>>

\* line = line.next
LineNextProp ==
    /\ line /= NoLine
    /\ line._ea \in Addr
    /\ LET r == LineInit(Ea(endEA(line)), None, BADADDR, BADADDR)
       IN  /\ line' = r.line
           /\ lineRaised' = r.raised
    /\ lineCall' = [op |-> "next"]
    /\ hostCalls' = <<>>
    /\ UNCHANGED <<heads, menuVars, linesVars>>

\* line = line.prev
LinePrevProp ==
    /\ line /= NoLine
    /\ line._ea \in Addr
    /\ LET r == LineInit(Ea(line._ea - 1), None, BADADDR, BADADDR)
       IN  /\ line' = r.line
           /\ lineRaised' = r.raised
    /\ lineCall' = [op |-> "prev"]
    /\ hostCalls' = <<>>
    /\ UNCHANGED <<heads, menuVars, linesVars>>

\* a read or a write through line.comments
CommentsOp(op, issued) ==
    /\ line /= NoLine
    /\ lineCall' = [op |-> op]
    /\ hostCalls' = issued
    /\ lineRaised' = None
    /\ UNCHANGED <<heads, line, menuVars, linesVars>>

regular_get == CommentsOp("comments.regular", GetCalls("Comment", line._comments))

regular_set ==
    \E comment \in Texts :
        CommentsOp("comments.regular=", SetCalls("MakeComm", line._comments, comment))

repeat_get == CommentsOp("comments.repeat", GetCalls("RptCmt", line._comments))

repeat_set ==
    \E comment \in Texts :
        CommentsOp("comments.repeat=", SetCalls("MakeRptCmt", line._comments, comment))

anterior_get ==
    \E n \in 0..MaxExtraLines :
        CommentsOp("comments.anterior", ExtraGetCalls("LineA", line._comments, n))

anterior_set ==
    \E comment \in Texts :
        CommentsOp("comments.anterior=",
                   ExtraSetCalls("ExtLinA", "DelExtLnA", line._comments, comment))

posterior_get ==
    \E n \in 0..MaxExtraLines :
        CommentsOp("comments.posterior", ExtraGetCalls("LineB", line._comments, n))

posterior_set ==
    \E comment \in Texts :
        CommentsOp("comments.posterior=",
                   ExtraSetCalls("ExtLinB", "DelExtLnB", line._comments, comment))

EaArgs == {NoneV, UseCurrentAddress} \cup {Ea(a) : a \in Addr}

LineNext ==
    \/ \E ea \in EaArgs, name \in LineNames \cup {None} : NewLine(ea, name)
    \/ LineNextProp
    \/ LinePrevProp
    \/ regular_get
    \/ regular_set
    \/ repeat_get
    \/ repeat_set
    \/ anterior_get
    \/ anterior_set
    \/ posterior_get
    \/ posterior_set

(***************************************************************************)
(* sark/code/line.py: lines(start, end, reverse)                           *)
(***************************************************************************)
\* sark.core.fix_addresses(start, end): None stands for the start, or the
\* end, of the database.
fix_addresses(start, end) ==
    [start |-> IF start = NoneV THEN 0 ELSE start.val,
     end   |-> IF end = NoneV THEN MaxEA ELSE end.val]

NoGen == [pc |-> "none"]

LinesIdle ==
    /\ gen = NoGen
    /\ yielded = <<>>

LinesModuleInit ==
    /\ heads \in Layouts
    /\ LinesIdle

\* g = lines(start, end, reverse): a generator that has not run yet
lines(start, end, reverse) ==
    /\ gen' = [pc |-> "created", args |-> [start |-> start, end |-> end],
               reverse |-> reverse, start |-> None, end |-> None, item |-> None]
    /\ yielded' = <<>>
    /\ UNCHANGED <<heads, menuVars, lineVars>>

\* the item the loop looks at first
FirstItem(reverse, start, end) ==
    IF ~reverse THEN get_item_head(start) ELSE get_item_head(end - 1)

\* a step of one byte instead of one item
StepItem_byte(reverse, item) ==
    IF ~reverse THEN item + 1 ELSE get_item_head(item - 1)

\* the item the loop looks at after it has yielded the line at item
StepItem(reverse, item) ==
    IF ~reverse THEN item + get_item_size(item) ELSE get_item_head(item - 1)

\* the condition of the while loop
LoopTest(reverse, item, start, end) ==
    IF ~reverse THEN item < end ELSE item > start

\* the generator runs from item on: it yields Line(item) or it ends
RunFrom(g, item) ==
    IF LoopTest(g.reverse, item, g.start, g.end)
    THEN /\ yielded' = Append(yielded, LineInit(Ea(item), None, BADADDR, BADADDR).line)
         /\ gen' = [g EXCEPT !.pc = "suspended", !.item = item]
    ELSE /\ yielded' = yielded
         /\ gen' = [g EXCEPT !.pc = "done", !.item = item]

\* next(g)
lines_next ==
    /\ UNCHANGED <<heads, menuVars, lineVars>>
    /\ \/ /\ gen.pc = "created"
          /\ LET fixed == fix_addresses(gen.args.start, gen.args.end)
                 g == [gen EXCEPT !.start = fixed.start, !.end = fixed.end]
             IN  RunFrom(g, FirstItem(g.reverse, g.start, g.end))
       \/ /\ gen.pc = "suspended"
          /\ RunFrom(gen, StepItem(gen.reverse, gen.item))

StartArgs == {NoneV} \cup {Ea(a) : a \in Addr}
EndArgs == {NoneV} \cup {Ea(a) : a \in 0..MaxEA}

LinesNext ==
    \/ \E start \in StartArgs, end \in EndArgs, reverse \in BOOLEAN :
           lines(start, end, reverse)
    \/ lines_next

(***************************************************************************)
(* The specifications: one per object, the others left as constructed.     *)
(***************************************************************************)
MenuIdle ==
    /\ menuBar = {}
    /\ _menus = EmptyDict
    /\ serial = 0
    /\ menuRaised = None
    /\ menuCall = [op |-> "none", name |-> None]
    /\ preBar = {}
    /\ preMenus = EmptyDict
    /\ removedTwice = {}

MenuInit == MenuManagerInit /\ heads = {0} /\ LineIdle /\ LinesIdle
MenuSpec == MenuInit /\ [][MenuNext]_vars

LineSpecInit == MenuIdle /\ LineModuleInit /\ LinesIdle
LineSpec == LineSpecInit /\ [][LineNext]_vars

LinesSpecInit == MenuIdle /\ LinesModuleInit /\ LineIdle
LinesSpec == LinesSpecInit /\ [][LinesNext]_vars

(***************************************************************************)
(* Properties of MenuManager (checked under MenuSpec)                      *)
(***************************************************************************)
\* the menu this manager created under name and that was in the bar
OwnPresent(bar, d, name) == name \in DOMAIN d /\ d[name] \in bar

\* C1: add_menu(name) for a name the manager already has registered raises
\* MenuAlreadyExists and changes neither the menu bar nor the mapping; so the
\* menu bar never holds two menus of one name that this manager created.
C1_AddExistingRaises ==
    /\ (menuCall.op = "add_menu" /\ menuCall.name \in DOMAIN preMenus) =>
           /\ menuRaised = "MenuAlreadyExists"
           /\ menuBar = preBar
           /\ _menus = preMenus
    /\ \A m1, m2 \in OwnMenus(menuBar) : m1.title = m2.title => m1 = m2

\* add_menu was called for a registered name, whose menu had been removed
\* from the bar, while the host has a menu of that name too
C1_Witness ==
    /\ menuCall.op = "add_menu"
    /\ menuCall.name \in DOMAIN preMenus
    /\ preMenus[menuCall.name] \notin preBar
    /\ HostMenu(menuCall.name) \in preBar
    /\ menuRaised = "MenuAlreadyExists"

\* C2: remove_menu(name) removes exactly the manager's menu of that name when
\* it is in the bar, and otherwise (never added, or already removed) raises
\* MenuNotFound and removes nothing.
C2_RemoveOnlyPresent ==
    menuCall.op = "remove_menu" =>
        IF OwnPresent(preBar, preMenus, menuCall.name)
        THEN /\ menuRaised = None
             /\ menuBar = preBar \ {preMenus[menuCall.name]}
        ELSE /\ menuRaised = "MenuNotFound"
             /\ menuBar = preBar

\* C3: after clear() no menu this manager created is in the bar, and the
\* menus it did not create are all still there.
C3_ClearRemovesOwn ==
    menuCall.op = "clear" =>
        /\ OwnMenus(menuBar) = {}
        /\ menuBar = preBar \ OwnMenus(preBar)

\* clear() was called with one own menu in the bar, another one removed
\* before, and a host menu titled like an own one
C3_Witness ==
    /\ menuCall.op = "clear"
    /\ OwnMenus(preBar) /= {}
    /\ \E n \in DOMAIN preMenus : preMenus[n] \notin preBar
    /\ \E n \in DOMAIN preMenus : HostMenu(n) \in menuBar /\ preMenus[n] \in preBar

\* C7: the names of the mapping are the names of the manager's menus in the
\* bar; add_menu(name) succeeds when no menu of the manager under that name
\* is in the bar; no menu action is removed twice.
C7_MappingMatchesBar ==
    /\ DOMAIN _menus = {m.title : m \in OwnMenus(menuBar)}
    /\ (/\ menuCall.op = "add_menu"
        /\ ~ \E m \in OwnMenus(preBar) : m.title = menuCall.name)
           => menuRaised = None
    /\ removedTwice = {}

(***************************************************************************)
(* Properties of Line and Comments (checked under LineSpec)                *)
(***************************************************************************)
\* h is where the item that holds ea starts (ea itself outside the database)
IsItemHeadOf(h, ea) ==
    IF ea \in Addr
    THEN h \in heads /\ h <= ea /\ ~ \E k \in heads : h < k /\ k <= ea
    ELSE h = ea

\* C4: Line(ea, name) raises ValueError, and constructs nothing, when ea is
\* None and when both a name and an ea are given; otherwise the address is
\* the name's, the screen's (neither given) or ea, and Line.ea is the head
\* of the item at that address.
C4_LineInit ==
    lineCall.op = "Line" =>
        IF lineCall.ea = NoneV \/ (lineCall.name /= None /\ lineCall.ea.kind = "int")
        THEN lineRaised = "ValueError" /\ line = NoLine
        ELSE /\ lineRaised = None
             /\ line /= NoLine
             /\ IsItemHeadOf(line._ea,
                    IF lineCall.name /= None THEN lineCall.loc
                    ELSE IF lineCall.ea = UseCurrentAddress THEN lineCall.here
                    ELSE lineCall.ea.val)

\* Line(None) was called, without a name, and raised
C4_Witness ==
    /\ lineCall.op = "Line"
    /\ lineCall.ea = NoneV
    /\ lineCall.name = None
    /\ lineRaised = "ValueError"
    /\ line = NoLine

CommentOps == {"comments.regular", "comments.regular=", "comments.repeat",
               "comments.repeat=", "comments.anterior", "comments.anterior=",
               "comments.posterior", "comments.posterior="}

\* C6: a Line's comments are at the Line's address: every call a read or a
\* write through line.comments issues to the host is for line.ea.
C6_CommentsAtLineEa ==
    (line /= NoLine /\ lineCall.op \in CommentOps) =>
        \A i \in 1..Len(hostCalls) : hostCalls[i].ea = line._ea

(***************************************************************************)
(* Properties of lines() (checked under LinesSpec)                         *)
(***************************************************************************)
\* the heads of the item that holds start and of the items after it, below end
ItemsInRange(start, end) == {h \in heads : get_item_end(h) > start /\ h < end}

\* C5: lines(start, end), not reversed, yields the item that holds start and
\* then every later item that starts below end: in ascending order, each
\* once, each starting where the one before ends, none starting at or after
\* end; then it stops.
C5_LinesForward ==
    (/\ gen.pc \in {"suspended", "done"}
     /\ ~gen.reverse
     /\ gen.args.start /= NoneV
     /\ gen.args.end /= NoneV) =>
        LET start == gen.args.start.val
            end == gen.args.end.val
            n == Len(yielded)
        IN  /\ \A i \in 1..n : yielded[i]._ea \in ItemsInRange(start, end)
            /\ \A i \in 1..n : yielded[i]._ea < end
            /\ n > 0 => yielded[1]._ea <= start
            /\ \A i \in 1..(n - 1) :
                   /\ yielded[i]._ea < yielded[i + 1]._ea
                   /\ yielded[i + 1]._ea = endEA(yielded[i])
            /\ gen.pc = "done" =>
                   {yielded[i]._ea : i \in 1..n} = ItemsInRange(start, end)

\* a forward run that started inside an item, yielded several lines and
\* stopped before the last item of the database
C5_Witness ==
    /\ gen.pc = "done"
    /\ ~gen.reverse
    /\ gen.args.start /= NoneV
    /\ gen.args.end /= NoneV
    /\ gen.args.start.val \notin heads
    /\ Len(yielded) >= 2
    /\ \E h \in heads : h >= gen.args.end.val
=============================================================================
